---------------------------- MODULE Spec2Model ----------------------------
(***************************************************************************)
(* Model of the serializer usage analyzer                                  *)
(*   src/common/management/commands/analyze_serializer_usage.py            *)
(*   src/common/management/commands/find_unused_serializers.py             *)
(*                                                                         *)
(* Text is modelled as a sequence of atoms.  An atom is a chunk of         *)
(* characters that no pattern of the program can split: a keyword, a piece *)
(* of an identifier, a punctuation character, a blank, a line break.  The  *)
(* regular expressions of the program are sequences of elements that are   *)
(* matched against atom sequences by a backtracking matcher with the       *)
(* priorities of Python's re module (greedy: longest first, lazy: shortest *)
(* first, leftmost start first).                                           *)
(***************************************************************************)
EXTENDS Integers, Sequences, FiniteSets, TLC

(***************************************************************************)
(* Sequences                                                               *)
(***************************************************************************)
Max0(n) == IF n < 0 THEN 0 ELSE n

SubSeqFrom(s, i) == SubSeq(s, i, Len(s))

\* s[i..] starts with p
StartsAt(s, i, p) ==
    /\ i + Len(p) - 1 <= Len(s)
    /\ \A k \in 1..Len(p) : s[i + k - 1] = p[k]

\* Python: p in s (substring test on text)
Contains(s, p) == \E i \in 1..(Len(s) + 1) : StartsAt(s, i, p)

\* Python: s.startswith(p) and s.endswith(p)
StartsWith(s, p) == StartsAt(s, 1, p)
EndsWith(s, p) == Len(p) <= Len(s) /\ StartsAt(s, Len(s) - Len(p) + 1, p)

RECURSIVE Concat(_)
Concat(ss) == IF ss = <<>> THEN <<>> ELSE Head(ss) \o Concat(Tail(ss))

RECURSIVE SplitOn(_, _)
\* Python: s.split(sep) for a one-character separator: always at least one
\* segment, empty segments kept.
SplitOn(s, sep) ==
    IF \A k \in 1..Len(s) : s[k] # sep THEN <<s>>
    ELSE LET i == CHOOSE k \in 1..Len(s) :
                     s[k] = sep /\ \A m \in 1..(k - 1) : s[m] # sep
         IN  <<SubSeq(s, 1, i - 1)>> \o SplitOn(SubSeqFrom(s, i + 1), sep)

RECURSIVE JoinWith(_, _)
\* Python: sep.join(parts)
JoinWith(parts, sep) ==
    IF parts = <<>> THEN <<>>
    ELSE IF Len(parts) = 1 THEN parts[1]
    ELSE parts[1] \o <<sep>> \o JoinWith(Tail(parts), sep)

(***************************************************************************)
(* Character classes of the regular expressions                            *)
(***************************************************************************)
NL == "\n"
Blank == {" ", "\t"}
\* \s
SpaceAtoms == Blank \cup {NL}
\* [A-Za-z]: the atoms made of letters only
LetterAtoms ==
    {"class", "serializer", "s", "return", "yield", "many", "True", "Meta",
     "def", "get", "self", "from", "import", "rest", "custom", "py",
     "app", "other", "views", "models", "user", "a", "b", "x", "data",
     "Foo", "Bar", "Base", "Inner", "Serializer", "sub", "if", "is", "has",
     "User"}
\* \w
WordAtoms == LetterAtoms \cup {"_", "1"}

Only(S) == [neg |-> FALSE, set |-> S]
Except(S) == [neg |-> TRUE, set |-> S]
InClass(a, c) == IF c.neg THEN a \notin c.set ELSE a \in c.set

\* .  without and with re.DOTALL
Dot == Except({NL})
DotAll == Except({})

(***************************************************************************)
(* Regular expression elements                                             *)
(***************************************************************************)
\* one atom of class c, c+ , c* , c*?
One(c) == <<[t |-> "cls", c |-> c, min |-> 1, many |-> FALSE, greedy |-> TRUE]>>
Plus(c) == <<[t |-> "cls", c |-> c, min |-> 1, many |-> TRUE, greedy |-> TRUE]>>
Star(c) == <<[t |-> "cls", c |-> c, min |-> 0, many |-> TRUE, greedy |-> TRUE]>>
LazyStar(c) == <<[t |-> "cls", c |-> c, min |-> 0, many |-> TRUE, greedy |-> FALSE]>>
\* literal text
Lit(a) == <<[t |-> "lit", as |-> <<a>>]>>
Lits(as) == <<[t |-> "lit", as |-> as]>>
\* (?:re){min,max} greedy and (?:re){min,max}? lazy
Group(re, min, max) == <<[t |-> "grp", re |-> re, min |-> min, max |-> max, greedy |-> TRUE]>>
LazyGroup(re, min, max) == <<[t |-> "grp", re |-> re, min |-> min, max |-> max, greedy |-> FALSE]>>
\* ( re ): capturing group 1
Capture(re) == <<[t |-> "open"]>> \o re \o <<[t |-> "close"]>>

SPlus == Plus(Only(SpaceAtoms))
SStar == Star(Only(SpaceAtoms))
WPlus == Plus(Only(WordAtoms))

(***************************************************************************)
(* The matcher: the first match of re at position j of s in the order in   *)
(* which a backtracking matcher tries the alternatives.                    *)
(***************************************************************************)
NoMatch == [ok |-> FALSE, start |-> 0, end |-> 0, g |-> <<0, 0>>]

RECURSIVE RunLen(_, _, _)
\* length of the longest run of atoms of class c from position j
RunLen(s, j, c) ==
    IF j <= Len(s) /\ InClass(s[j], c) THEN 1 + RunLen(s, j + 1, c) ELSE 0

RECURSIVE MatchAt(_, _, _, _)
MatchAt(re, s, j, g) ==
    IF re = <<>> THEN [ok |-> TRUE, start |-> 0, end |-> j, g |-> g]
    ELSE LET e == Head(re)
             rest == Tail(re)
         IN  CASE e.t = "lit" ->
                    IF StartsAt(s, j, e.as) THEN MatchAt(rest, s, j + Len(e.as), g)
                    ELSE NoMatch
               [] e.t = "open" -> MatchAt(rest, s, j, <<j, g[2]>>)
               [] e.t = "close" -> MatchAt(rest, s, j, <<g[1], j>>)
               [] e.t = "cls" ->
                    LET full == RunLen(s, j, e.c)
                        run == IF e.many \/ full = 0 THEN full ELSE 1
                        \* the continuation after each possible number of atoms
                        tries == [k \in e.min..run |-> MatchAt(rest, s, j + k, g)]
                        good == {k \in e.min..run : tries[k].ok}
                    IN  IF good = {} THEN NoMatch
                        ELSE IF e.greedy
                        THEN tries[CHOOSE k \in good : \A m \in good : m <= k]
                        ELSE tries[CHOOSE k \in good : \A m \in good : m >= k]
               [] e.t = "grp" ->
                    LET more == [e EXCEPT !.min = Max0(e.min - 1), !.max = e.max - 1]
                        with == IF e.max > 0
                                THEN MatchAt(e.re \o <<more>> \o rest, s, j, g)
                                ELSE NoMatch
                        without == IF e.min = 0 THEN MatchAt(rest, s, j, g)
                                   ELSE NoMatch
                    IN  IF e.greedy
                        THEN (IF with.ok THEN with ELSE without)
                        ELSE (IF without.ok THEN without ELSE with)

\* re.search(re, s) from position i on: the leftmost match
SearchFrom(re, s, i) ==
    LET Leftmost(tries) ==
            LET good == {k \in DOMAIN tries : tries[k].ok}
            IN  IF good = {} THEN NoMatch
                ELSE LET first == CHOOSE k \in good : \A m \in good : m >= k
                     IN  [tries[first] EXCEPT !.start = first]
    IN  Leftmost([k \in i..(Len(s) + 1) |-> MatchAt(re, s, k, <<0, 0>>)])

\* bool(re.search(re, s))
Search(re, s) == \E k \in 1..(Len(s) + 1) : MatchAt(re, s, k, <<0, 0>>).ok

RECURSIVE FindIterFrom(_, _, _)
\* re.finditer(re, s): the non-overlapping matches from left to right
FindIterFrom(re, s, i) ==
    LET From(r) ==
            IF ~r.ok THEN <<>>
            ELSE <<r>> \o FindIterFrom(re, s, IF r.end > r.start THEN r.end ELSE r.end + 1)
    IN  From(SearchFrom(re, s, i))

FindIter(re, s) == FindIterFrom(re, s, 1)

\* the text of a match and of its group 1
MatchText(s, r) == SubSeq(s, r.start, r.end - 1)
GroupText(s, r) == SubSeq(s, r.g[1], r.g[2] - 1)


(***************************************************************************)
(* Text helpers of the program                                             *)
(***************************************************************************)
RECURSIVE LStrip(_)
LStrip(s) == IF s # <<>> /\ Head(s) \in SpaceAtoms THEN LStrip(Tail(s)) ELSE s

RECURSIVE RStrip(_)
RStrip(s) ==
    IF s # <<>> /\ s[Len(s)] \in SpaceAtoms THEN RStrip(SubSeq(s, 1, Len(s) - 1))
    ELSE s

\* Python: s.strip()
Strip(s) == RStrip(LStrip(s))

\* Python: content.split('\n')
Lines(content) == SplitOn(content, NL)

\* Python: content[:pos].count('\n') + 1, the line of 1-based position pos
LineOf(content, pos) ==
    Cardinality({k \in 1..(pos - 1) : content[k] = NL}) + 1

(***************************************************************************)
(* SerializerUsageAnalyzer._parse_serializer_path                          *)
(***************************************************************************)
MinSegments == 3

\* the path is rejected with ValueError
ParseFails(serializer_path) ==
    Len(SplitOn(serializer_path, ".")) < MinSegments

\* a parse that takes the first three segments whatever the length
ParseFirstThree(serializer_path) ==
    LET parts == SplitOn(serializer_path, ".")
    IN  [app_name |-> parts[1], file_name |-> parts[2], serializer_name |-> parts[3]]

ParseSerializerPath(serializer_path) ==
    LET parts == SplitOn(serializer_path, ".")
    IN  IF Len(parts) > MinSegments
        THEN [app_name |-> parts[1], file_name |-> parts[Len(parts) - 1],
              serializer_name |-> parts[Len(parts)]]
        ELSE [app_name |-> parts[1], file_name |-> parts[2],
              serializer_name |-> parts[3]]

(***************************************************************************)
(* The file tree: the files under the registered application directories   *)
(* in the order of os.walk.  A file is [path, readable, content]: path is  *)
(* relative to the working directory, readable says that open() and a      *)
(* utf-8 read() succeed.                                                   *)
(***************************************************************************)
\* os.path.basename(dir_path)
Basename(path) == LET parts == SplitOn(path, "/") IN parts[Len(parts)]

\* the .py files below directory dir, in walk order
FilesUnder(dir, tree) ==
    SelectSeq(tree, LAMBDA f : /\ StartsWith(f.path, dir \o <<"/">>)
                               /\ EndsWith(f.path, <<".", "py">>))

\* for app_dir in self.project_dirs: for root, _, files in os.walk(app_dir): ...
Walk(project_dirs, tree) ==
    Concat([d \in 1..Len(project_dirs) |-> FilesUnder(project_dirs[d], tree)])

\* a scan whose open() and read() raise nothing: every file gives its content
ReadableOrNot(files) == files

\* the files a scan gets the content of: open() or read() raising
\* UnicodeDecodeError or IOError skips the file
Readable(files) == SelectSeq(files, LAMBDA f : f.readable)

\* one record per line and pattern that matches it, patterns inner loop;
\* content is the line as it stands in the file
LineItems(f, patterns) ==
    LET lines == Lines(f.content)
    IN  Concat([k \in 1..Len(lines) |->
            Concat([p \in 1..Len(patterns) |->
                IF Search(patterns[p], lines[k])
                THEN <<[file |-> f.path, line |-> k, content |-> lines[k]]>>
                ELSE <<>>])])

\* "content": line.strip()
Stripped(items) == [k \in 1..Len(items) |-> [items[k] EXCEPT !.content = Strip(@)]]

(***************************************************************************)
(* The detection passes.  n is the parsed target [app_name, file_name,     *)
(* serializer_name]; files is the walk.  Each operator yields the records  *)
(* the pass appends to its category.                                       *)
(***************************************************************************)
ImportPatterns(n) ==
    LET from(mod) == Lit("from") \o SPlus \o mod \o SPlus \o Lit("import") \o SPlus
        app == Lits(n.app_name)
        file == Lits(n.file_name)
        name == Lits(n.serializer_name)
        sers == Lits(<<"serializer", "s">>)
    IN  << from(app \o Lit(".") \o file) \o Star(Dot) \o name,
           from(app \o Lit(".") \o file) \o Lit("(") \o Star(Dot) \o name
               \o Star(Dot) \o Lit(")"),
           from(app \o Lit(".") \o sers) \o Star(Dot) \o name,
           from(app \o Lit(".") \o sers) \o Lit("(") \o Star(Dot) \o name
               \o Star(Dot) \o Lit(")"),
           from(app \o Lit(".") \o Lit("rest") \o Lit(".") \o sers \o Lit(".") \o file)
               \o Star(Dot) \o name,
           from(app \o Lit(".") \o Lit("rest") \o Lit(".") \o sers)
               \o Star(Dot) \o name >>

ScanForDirectImports(n, files) ==
    LET patterns == ImportPatterns(n)
        PerFile(f) ==
            Concat([p \in 1..Len(patterns) |->
                LET Found(m) ==
                        IF m.ok
                        THEN <<[file |-> f.path, import_stmt |-> MatchText(f.content, m)]>>
                        ELSE <<>>
                IN  Found(SearchFrom(patterns[p], f.content, 1))])
        rd == Readable(files)
    IN  Concat([i \in 1..Len(rd) |-> PerFile(rd[i])])

DeclarationPatterns(n) ==
    LET name == Lits(n.serializer_name)
        sc == Lits(<<"serializer", "_", "class">>)
        quote == One(Only({"'", "\""}))
    IN  << sc \o SStar \o Lit("=") \o SStar \o name,
           sc \o SStar \o Lit("=") \o SStar \o name \o Lit(".")
               \o Plus(Only(LetterAtoms)),
           One(Only({"return", "yield"})) \o SPlus \o name,
           Lit("serializer") \o SStar \o Lit("=") \o SStar \o name,
           quote \o name \o quote,
           Lit(":") \o SStar \o name >>

\* the number of lines a method body may span before its return statement
MethodWindow == 20

GetSerializerPattern ==
    Lit("def") \o SPlus \o Lits(<<"get", "_", "serializer">>)
        \o Group(Lits(<<"_", "class">>), 0, 1) \o SStar
        \o Lit("(") \o Star(Except({")"})) \o Lit(")") \o Lit(":") \o SStar
        \o LazyGroup(Lit(NL) \o Star(Except({NL})), 0, MethodWindow)
        \o Lit(NL) \o Plus(Only(Blank)) \o One(Only({"return", "yield"})) \o SPlus
        \o Capture(Star(Except({"(", ")", NL})))

DynamicMarker == "Dynamic selection in get_serializer_class: "
ParentMarker == "Used through parent: "

ScanForSerializerClassDeclarations(n, files) ==
    LET patterns == DeclarationPatterns(n)
        Selections(f, ms) ==
            Concat([k \in 1..Len(ms) |->
                LET method_body == GroupText(f.content, ms[k])
                IN  IF Contains(method_body, n.serializer_name)
                    THEN <<[file |-> f.path,
                            line |-> LineOf(f.content, ms[k].g[1]),
                            content |-> <<DynamicMarker>> \o Strip(method_body)]>>
                    ELSE <<>>])
        Dynamic(f) == Selections(f, FindIter(GetSerializerPattern, f.content))
        rd == Readable(files)
    IN  Concat([i \in 1..Len(rd) |->
            Stripped(LineItems(rd[i], patterns)) \o Dynamic(rd[i])])

FieldPatterns(n) ==
    LET name == Lits(n.serializer_name)
    IN  << WPlus \o SStar \o Lit("=") \o SStar \o name \o Lit("("),
           WPlus \o SStar \o Lit("=") \o SStar \o name \o Lit(".") \o WPlus
               \o Lit("(") >>

ScanForFieldUsages(n, files) ==
    LET rd == Readable(files)
    IN  Concat([i \in 1..Len(rd) |-> Stripped(LineItems(rd[i], FieldPatterns(n)))])

InheritancePattern(n) ==
    Lit("class") \o SPlus \o WPlus \o Lit("(") \o Lits(n.serializer_name)
        \o Star(Dot) \o Lit(")") \o Lit(":")

ScanForSerializerInheritance(n, files) ==
    LET rd == Readable(files)
    IN  Concat([i \in 1..Len(rd) |->
            Stripped(LineItems(rd[i], <<InheritancePattern(n)>>))])

InstantiationPatterns(n) ==
    LET name == Lits(n.serializer_name)
    IN  << name \o Lit("("),
           name \o Lit(".") \o WPlus \o Lit("(") >>

\* a test that lets the = of a keyword argument through: only an = outside
\* the parentheses excludes the line
NoClassNoOuterAssign(line) ==
    /\ ~Contains(line, <<"class">>)
    /\ \A k \in 1..Len(line) :
          line[k] = "=" =>
              Cardinality({m \in 1..(k - 1) : line[m] = "("})
                  > Cardinality({m \in 1..(k - 1) : line[m] = ")"})

\* a test that forgets the assignments
NoClassOnly(line) == ~Contains(line, <<"class">>)

\* "class" not in line and "=" not in line
NoClassNoAssign(line) == ~Contains(line, <<"class">>) /\ ~Contains(line, <<"=">>)

RECURSIVE AddUnseen(_, _, _)
\* appends the records whose (file, line, content) is not in seen_results
\* yet and adds them to it: [items, seen]
AddUnseen(cands, items, seen) ==
    IF cands = <<>> THEN [items |-> items, seen |-> seen]
    ELSE LET c == Head(cands)
             key == <<c.file, c.line, c.content>>
         IN  IF key \in seen THEN AddUnseen(Tail(cands), items, seen)
             ELSE AddUnseen(Tail(cands), Append(items, c), seen \cup {key})

\* [items, seen]: the records appended and the seen_results afterwards
ScanForDirectInstantiations(n, files, seen) ==
    LET rd == Readable(files)
        cands == Concat([i \in 1..Len(rd) |->
                     Stripped(SelectSeq(LineItems(rd[i], InstantiationPatterns(n)),
                                        LAMBDA c : NoClassNoAssign(c.content)))])
    IN  AddUnseen(cands, <<>>, seen)

ManyTruePatterns(n) ==
    LET name == Lits(n.serializer_name)
        many == Lits(<<"many", "=", "True">>)
    IN  << name \o Lit("(") \o Star(Dot) \o many,
           name \o Lit(".") \o WPlus \o Lit("(") \o Star(Dot) \o many >>

ScanForManyTrueUsages(n, files) ==
    LET rd == Readable(files)
    IN  Concat([i \in 1..Len(rd) |->
            Stripped(LineItems(rd[i], ManyTruePatterns(n)))])

InnerClassPattern(n) ==
    Lits(n.serializer_name) \o Lit(".") \o Plus(Only(LetterAtoms))

\* "serializer_class" not in line
NoSerializerClass(line) == ~Contains(line, <<"serializer", "_", "class">>)

ScanForInnerClassUsages(n, files) ==
    LET rd == Readable(files)
    IN  Concat([i \in 1..Len(rd) |->
            Stripped(SelectSeq(LineItems(rd[i], <<InnerClassPattern(n)>>),
                               LAMBDA c : NoSerializerClass(c.content)))])

MetaClassPattern(n) == Lits(n.serializer_name) \o Lit(".") \o Lit("Meta")

ScanForMetaClassReferences(n, files) ==
    LET rd == Readable(files)
    IN  Concat([i \in 1..Len(rd) |->
            Stripped(LineItems(rd[i], <<MetaClassPattern(n)>>))])

(***************************************************************************)
(* Parent serializers: classes that nest the target as an inner class      *)
(***************************************************************************)
PotentialParentPattern(n) ==
    Lit("class") \o SPlus \o Capture(WPlus \o Lit("Serializer"))
        \o LazyStar(DotAll) \o Lit("class") \o SPlus \o Lits(n.serializer_name)

\* the list of parent names, one per match, duplicates kept
FindPotentialParentSerializers(n, files) ==
    LET rd == Readable(files)
    IN  Concat([i \in 1..Len(rd) |->
            LET Names(ms) == [k \in 1..Len(ms) |-> GroupText(rd[i].content, ms[k])]
            IN  Names(FindIter(PotentialParentPattern(n), rd[i].content))])

\* records that keep the line as it is
WithoutMarker(items) ==
    [k \in 1..Len(items) |-> [items[k] EXCEPT !.content = Strip(@)]]

\* "content": f"Used through parent: {line.strip()}"
WithParentMarker(items) ==
    [k \in 1..Len(items) |-> [items[k] EXCEPT !.content = <<ParentMarker>> \o Strip(@)]]

\* the records appended to serializer_class_declarations
ScanForParentSerializerUsages(n, files) ==
    LET parents == FindPotentialParentSerializers(n, files)
        rd == Readable(files)
    IN  Concat([q \in 1..Len(parents) |->
            Concat([i \in 1..Len(rd) |->
                WithParentMarker(LineItems(rd[i],
                    <<Lits(parents[q]) \o Lit(".") \o Lits(n.serializer_name)>>))])])

(***************************************************************************)
(* SerializerUsageAnalyzer.find_serializer_in_file                         *)
(***************************************************************************)
PossibleFilePatterns(n) ==
    LET py == n.file_name \o <<".", "py">>
    IN  << n.app_name \o <<"/", "rest", "/", "serializer", "s", "/">> \o py,
           n.app_name \o <<"/">> \o py,
           n.app_name \o <<"/", "serializer", "s", "/">> \o py,
           n.app_name \o <<"/", "custom", "_", "serializer", "/">> \o py >>

ClassPattern(n) ==
    Lit("class") \o SPlus \o Lits(n.serializer_name) \o Lit("(")

InnerInSerializerPattern(n) ==
    Lit("class") \o SPlus \o WPlus \o Lit("Serializer") \o LazyStar(DotAll)
        \o Lit("class") \o SPlus \o Lits(n.serializer_name) \o Lit("(")

InnerInAnyPattern(n) ==
    Lit("class") \o SPlus \o WPlus \o LazyStar(DotAll)
        \o Lit("class") \o SPlus \o Lits(n.serializer_name) \o Lit("(")

\* the files of the tree at one of the possible paths, in the order of the
\* list; os.path.exists() of a path that is no file of the tree is false
FilesAt(paths, tree) ==
    Concat([k \in 1..Len(paths) |-> SelectSeq(tree, LAMBDA f : f.path = paths[k])])

\* the first app directory whose basename is the app name, << >> if none
AppDirOf(n, project_dirs) ==
    LET hits == SelectSeq(project_dirs, LAMBDA d : Basename(d) = n.app_name)
    IN  IF hits = <<>> THEN <<>> ELSE <<hits[1]>>

\* TRUE iff the locator finds a definition of the target
FindSerializerInFile(n, project_dirs, tree) ==
    LET direct == Readable(FilesAt(PossibleFilePatterns(n), tree))
        app_dir == AppDirOf(n, project_dirs)
        app_files == IF app_dir = <<>> THEN <<>>
                     ELSE Readable(FilesUnder(app_dir[1], tree))
    IN  \/ \E i \in 1..Len(direct) :
              \/ Search(ClassPattern(n), direct[i].content)
              \/ Search(InnerInSerializerPattern(n), direct[i].content)
        \/ FindPotentialParentSerializers(n, Walk(project_dirs, tree)) # <<>>
        \/ \E i \in 1..Len(app_files) :
              Search(InnerInAnyPattern(n), app_files[i].content)

(***************************************************************************)
(* SerializerUsageAnalyzer._deduplicate_results                            *)
(***************************************************************************)
Categories ==
    <<"direct_imports", "serializer_class_declarations", "field_usages",
      "serializer_inheritance", "direct_instantiations", "many_true_usages",
      "inner_class_usages", "meta_class_references">>

CategorySet == {Categories[k] : k \in 1..Len(Categories)}

EmptyResults == [c \in CategorySet |-> <<>>]

\* a key that tells items of one line apart by their text
DedupKeyWithContent(item) ==
    <<item.file, IF "line" \in DOMAIN item THEN item.line ELSE 0,
      IF "content" \in DOMAIN item THEN item.content ELSE item.import_stmt>>

\* a key that tells the records without line apart by their statement
DedupKeyByStatement(item) ==
    <<item.file, IF "line" \in DOMAIN item THEN item.line ELSE item.import_stmt>>

\* (item["file"], item.get("line", 0))
DedupKey(item) ==
    <<item.file, IF "line" \in DOMAIN item THEN item.line ELSE 0>>

RECURSIVE UniqueFromSkipping(_, _, _)
\* a removal inside the iteration: the item behind a removed one is passed over
UniqueFromSkipping(items, unique_results, seen) ==
    IF items = <<>> THEN unique_results
    ELSE LET key == DedupKey(Head(items))
         IN  IF key \notin seen
             THEN UniqueFromSkipping(Tail(items), Append(unique_results, Head(items)),
                                     seen \cup {key})
             ELSE IF Tail(items) = <<>> THEN unique_results
             ELSE UniqueFromSkipping(Tail(Tail(items)),
                                     Append(unique_results, Head(Tail(items))), seen)

RECURSIVE UniqueFrom(_, _, _)
UniqueFrom(items, unique_results, seen) ==
    IF items = <<>> THEN unique_results
    ELSE LET key == DedupKey(Head(items))
         IN  IF key \notin seen
             THEN UniqueFrom(Tail(items), Append(unique_results, Head(items)),
                             seen \cup {key})
             ELSE UniqueFrom(Tail(items), unique_results, seen)

\* a category left as the passes filled it
KeptAsScanned(items) == items

\* one category deduplicated
DeduplicateCategory(items) == UniqueFrom(items, <<>>, {})

DeduplicateResults(res) == [c \in DOMAIN res |-> DeduplicateCategory(res[c])]

(***************************************************************************)
(* SerializerUsageAnalyzer.analyze as one function of the parsed target,   *)
(* the project directories in their iteration order, and the tree          *)
(***************************************************************************)
ScanResults(n, project_dirs, tree) ==
    LET files == Walk(project_dirs, tree)
    IN  [direct_imports |-> ScanForDirectImports(n, files),
         serializer_class_declarations |->
             ScanForSerializerClassDeclarations(n, files)
                 \o ScanForParentSerializerUsages(n, files),
         field_usages |-> ScanForFieldUsages(n, files),
         serializer_inheritance |-> ScanForSerializerInheritance(n, files),
         direct_instantiations |-> ScanForDirectInstantiations(n, files, {}).items,
         many_true_usages |-> ScanForManyTrueUsages(n, files),
         inner_class_usages |-> ScanForInnerClassUsages(n, files),
         meta_class_references |-> ScanForMetaClassReferences(n, files)]

AnalyzeResults(n, project_dirs, tree) ==
    DeduplicateResults(ScanResults(n, project_dirs, tree))

(***************************************************************************)
(* State                                                                   *)
(***************************************************************************)
VARIABLES
    tree,             \* the files on disk, in walk order
    app_dirs,         \* apps.get_app_configs(): the registered app directories
    set_order,        \* the order in which set(app_dirs) iterates in this process
    serializer_path,  \* the argument of analyze_serializer_usage
    pc,               \* where the single-class command is
    analyzer,         \* << >>, or <<a>> with a the SerializerUsageAnalyzer
    reads,            \* how many times a file has been opened
    raw_results,      \* history: self.results as _deduplicate_results found them
    outcome,          \* "none", "report" or "CommandError"
    options,          \* the options of find_unused_serializers
    bpc,              \* where the batch command is
    serializers,      \* the candidates to analyze
    i,                \* the index of the loop over the candidates, from 0
    all_results,      \* the result of every candidate analyzed
    unused_serializers, \* those with total_usages <= threshold
    stdout,           \* sys.stdout: "original" or "devnull"
    errors,           \* the names progress_bar.write reported an error for
    snapshot,         \* the progress file: << >> or <<its content>>
    saves,            \* history: the calls of _save_intermediate_results
    passes            \* the passes analyze() has still to run, and whether
                      \* they ran out of the order of the source so far

cmdVars == <<serializer_path, pc, analyzer, reads, raw_results, outcome, passes>>
envVars == <<tree, app_dirs, set_order>>
batchVars == <<options, bpc, serializers, i, all_results, unused_serializers,
               stdout, errors, snapshot, saves>>
vars == <<tree, app_dirs, set_order, serializer_path, pc, analyzer, reads,
          raw_results, outcome, passes,
          options, bpc, serializers, i, all_results, unused_serializers,
          stdout, errors, snapshot, saves>>

\* the parsed target of the analyzer
Target(a) ==
    [app_name |-> a.app_name, file_name |-> a.file_name,
     serializer_name |-> a.serializer_name]

\* all orders of a sequence without its repetitions: the iterations of set(seq)
Orders(seq) ==
    LET S == {seq[k] : k \in 1..Len(seq)}
    IN  {o \in [1..Cardinality(S) -> S] : \A x \in S : \E k \in DOMAIN o : o[k] = x}

(***************************************************************************)
(* SerializerUsageAnalyzer.__init__ called by Command.handle               *)
(***************************************************************************)
NewAnalyzer(path) ==
    LET n == ParseSerializerPath(path)
    IN  [serializer_path |-> path,
         app_name |-> n.app_name,
         file_name |-> n.file_name,
         serializer_name |-> n.serializer_name,
         serializer_class |-> FALSE,
         results |-> EmptyResults,
         seen_results |-> {},
         project_dirs |-> <<>>]

ConstructOk ==
    /\ pc = "start"
    /\ ~ParseFails(serializer_path)
    /\ analyzer' = <<NewAnalyzer(serializer_path)>>
    /\ pc' = "roots"
    /\ UNCHANGED <<envVars, batchVars, passes, raw_results, serializer_path, reads, outcome>>

\* _parse_serializer_path raises ValueError: no analyzer comes to exist
ConstructFail ==
    /\ pc = "start"
    /\ ParseFails(serializer_path)
    /\ pc' = "except"
    /\ UNCHANGED <<envVars, batchVars, passes, raw_results, serializer_path, analyzer, reads, outcome>>

\* a handler that swallows the error and goes on to print a report
HandleErrorSwallowed ==
    /\ pc = "except"
    /\ outcome' = "report"
    /\ pc' = "done"
    /\ UNCHANGED <<envVars, batchVars, passes, raw_results, serializer_path, analyzer, reads>>

\* except (ValueError, ImportError) as e: raise CommandError(str(e))
HandleError ==
    /\ pc = "except"
    /\ outcome' = "CommandError"
    /\ pc' = "done"
    /\ UNCHANGED <<envVars, batchVars, passes, raw_results, serializer_path, analyzer, reads>>

(***************************************************************************)
(* SerializerUsageAnalyzer.analyze, one action per statement               *)
(***************************************************************************)
\* self.project_dirs = set(django_apps)
FindProjectRoots ==
    /\ pc = "roots"
    /\ analyzer' = <<[analyzer[1] EXCEPT !.project_dirs = set_order]>>
    /\ pc' = "locate"
    /\ UNCHANGED <<envVars, batchVars, passes, raw_results, serializer_path, reads, outcome>>

\* the files find_serializer_in_file opens
LocatorReads(n, project_dirs, tree_) ==
    LET direct == FilesAt(PossibleFilePatterns(n), tree_)
        Hit(f) == /\ f.readable
                  /\ \/ Search(ClassPattern(n), f.content)
                     \/ Search(InnerInSerializerPattern(n), f.content)
        hits == {h \in 1..Len(direct) : Hit(direct[h])}
        walk == Walk(project_dirs, tree_)
        app_dir == AppDirOf(n, project_dirs)
        app_files == IF app_dir = <<>> THEN <<>> ELSE FilesUnder(app_dir[1], tree_)
        AppHit(f) == f.readable /\ Search(InnerInAnyPattern(n), f.content)
        app_hits == {h \in 1..Len(app_files) : AppHit(app_files[h])}
    IN  IF hits # {} THEN CHOOSE h \in hits : \A k \in hits : h <= k
        ELSE IF FindPotentialParentSerializers(n, walk) # <<>>
        THEN Len(direct) + Len(walk)
        ELSE Len(direct) + Len(walk)
                 + (IF app_hits = {} THEN Len(app_files)
                    ELSE CHOOSE h \in app_hits : \A k \in app_hits : h <= k)

\* an analyze that returns early when the class is not found
AfterLocateOrReturn(found) == IF found THEN "imports" ELSE "report"

\* where analyze goes on after find_serializer_in_file
AfterLocate(found) == "imports"

\* if not self.find_serializer_in_file(): print a warning; go on either way
Locate ==
    /\ pc = "locate"
    /\ LET a == analyzer[1]
           found == FindSerializerInFile(Target(a), a.project_dirs, tree)
       IN  /\ analyzer' = <<[a EXCEPT !.serializer_class = found]>>
           /\ reads' = reads + LocatorReads(Target(a), a.project_dirs, tree)
           /\ pc' = AfterLocate(found)
    /\ UNCHANGED <<envVars, batchVars, passes, raw_results, serializer_path, outcome>>

\* a pass over the walk has run: its records are appended to the category
\* of self.results and every file of the walk has been opened
PassDone(at, next, category, items) ==
    /\ pc = at
    /\ analyzer' = <<[analyzer[1] EXCEPT !.results[category] = @ \o items]>>
    /\ reads' = reads + Len(Walk(analyzer[1].project_dirs, tree))
    /\ pc' = next
    /\ UNCHANGED <<envVars, batchVars, passes, raw_results, serializer_path, outcome>>

\* the files a pass of the analyzer walks
WalkOf(a) == Walk(a.project_dirs, tree)

DirectImports ==
    /\ pc = "imports"
    /\ PassDone("imports", "declarations", "direct_imports",
                ScanForDirectImports(Target(analyzer[1]), WalkOf(analyzer[1])))

SerializerClassDeclarations ==
    /\ pc = "declarations"
    /\ PassDone("declarations", "fields", "serializer_class_declarations",
                ScanForSerializerClassDeclarations(Target(analyzer[1]),
                                                   WalkOf(analyzer[1])))

FieldUsages ==
    /\ pc = "fields"
    /\ PassDone("fields", "inheritance", "field_usages",
                ScanForFieldUsages(Target(analyzer[1]), WalkOf(analyzer[1])))

SerializerInheritance ==
    /\ pc = "inheritance"
    /\ PassDone("inheritance", "instantiations", "serializer_inheritance",
                ScanForSerializerInheritance(Target(analyzer[1]), WalkOf(analyzer[1])))

DirectInstantiations ==
    /\ pc = "instantiations"
    /\ LET a == analyzer[1]
           files == Walk(a.project_dirs, tree)
           r == ScanForDirectInstantiations(Target(a), files, a.seen_results)
       IN  /\ analyzer' = <<[a EXCEPT !.results["direct_instantiations"] = @ \o r.items,
                                      !.seen_results = r.seen]>>
           /\ reads' = reads + Len(files)
    /\ pc' = "many"
    /\ UNCHANGED <<envVars, batchVars, passes, raw_results, serializer_path, outcome>>

ManyTrueUsages ==
    /\ pc = "many"
    /\ PassDone("many", "inner", "many_true_usages",
                ScanForManyTrueUsages(Target(analyzer[1]), WalkOf(analyzer[1])))

InnerClassUsages ==
    /\ pc = "inner"
    /\ PassDone("inner", "meta", "inner_class_usages",
                ScanForInnerClassUsages(Target(analyzer[1]), WalkOf(analyzer[1])))

MetaClassReferences ==
    /\ pc = "meta"
    /\ PassDone("meta", "parents", "meta_class_references",
                ScanForMetaClassReferences(Target(analyzer[1]), WalkOf(analyzer[1])))

\* the files _scan_for_parent_serializer_usages opens: one walk to find the
\* parents and one walk per parent found
ParentReads(n, files) ==
    Len(files) * (1 + Len(FindPotentialParentSerializers(n, files)))

ParentSerializerUsages ==
    /\ pc = "parents"
    /\ LET a == analyzer[1]
           files == Walk(a.project_dirs, tree)
       IN  /\ analyzer' = <<[a EXCEPT !.results["serializer_class_declarations"] =
                                 @ \o ScanForParentSerializerUsages(Target(a), files)]>>
           /\ reads' = reads + ParentReads(Target(a), files)
    /\ pc' = "dedup"
    /\ UNCHANGED <<envVars, batchVars, passes, raw_results, serializer_path, outcome>>

Deduplicate ==
    /\ pc = "dedup"
    /\ analyzer' = <<[analyzer[1] EXCEPT !.results = DeduplicateResults(@)]>>
    /\ raw_results' = analyzer[1].results
    /\ pc' = "report"
    /\ UNCHANGED <<envVars, batchVars, passes, serializer_path, reads, outcome>>

\* Command.handle prints or saves the summary of the results
Report ==
    /\ pc = "report"
    /\ outcome' = "report"
    /\ pc' = "done"
    /\ UNCHANGED <<envVars, batchVars, passes, raw_results, serializer_path, analyzer, reads>>

\* the records a pass other than _scan_for_direct_instantiations appends
PassItems(p, n, files) ==
    CASE p = "direct_imports" -> ScanForDirectImports(n, files)
      [] p = "serializer_class_declarations" -> ScanForSerializerClassDeclarations(n, files)
      [] p = "field_usages" -> ScanForFieldUsages(n, files)
      [] p = "serializer_inheritance" -> ScanForSerializerInheritance(n, files)
      [] p = "many_true_usages" -> ScanForManyTrueUsages(n, files)
      [] p = "inner_class_usages" -> ScanForInnerClassUsages(n, files)
      [] p = "meta_class_references" -> ScanForMetaClassReferences(n, files)

\* passes that all consult and fill self.seen_results
ApplyPassSharingSeen(p, a, files) ==
    IF p = "direct_imports"
    THEN [a EXCEPT !.results[p] = @ \o PassItems(p, Target(a), files)]
    ELSE LET cands == IF p = "direct_instantiations"
                      THEN ScanForDirectInstantiations(Target(a), files, {}).items
                      ELSE PassItems(p, Target(a), files)
             r == AddUnseen(cands, <<>>, a.seen_results)
         IN  [a EXCEPT !.results[p] = @ \o r.items, !.seen_results = r.seen]

\* the analyzer after the pass of category p: only the pass of
\* direct_instantiations reads and writes self.seen_results
ApplyPass(p, a, files) ==
    IF p = "direct_instantiations"
    THEN LET r == ScanForDirectInstantiations(Target(a), files, a.seen_results)
         IN  [a EXCEPT !.results[p] = @ \o r.items, !.seen_results = r.seen]
    ELSE [a EXCEPT !.results[p] = @ \o PassItems(p, Target(a), files)]

\* the place of a category in the order of the source
PlaceOf(p) == CHOOSE k \in 1..Len(Categories) : Categories[k] = p

\* the eight statements of analyze() taken in any order: one pass that has
\* not run yet runs
RunPass(p) ==
    /\ pc = "passes"
    /\ p \in passes.pending
    /\ analyzer' = <<ApplyPass(p, analyzer[1], WalkOf(analyzer[1]))>>
    /\ reads' = reads + Len(WalkOf(analyzer[1]))
    /\ passes' = [pending |-> passes.pending \ {p},
                  permuted |-> \/ passes.permuted
                               \/ \E q \in passes.pending : PlaceOf(q) < PlaceOf(p)]
    /\ pc' = IF passes.pending = {p} THEN "parents" ELSE "passes"
    /\ UNCHANGED <<envVars, batchVars, raw_results, serializer_path, outcome>>

AnyPass == \E p \in CategorySet : RunPass(p)

NextOrder == AnyPass \/ ParentSerializerUsages \/ Deduplicate \/ Report

NextCmd ==
    \/ ConstructOk \/ ConstructFail \/ HandleError
    \/ FindProjectRoots \/ Locate
    \/ DirectImports \/ SerializerClassDeclarations \/ FieldUsages
    \/ SerializerInheritance \/ DirectInstantiations \/ ManyTrueUsages
    \/ InnerClassUsages \/ MetaClassReferences \/ ParentSerializerUsages
    \/ Deduplicate \/ Report

(***************************************************************************)
(* SerializerFinder.find_all_serializers                                   *)
(***************************************************************************)
SerializerPatterns ==
    << Lit("class") \o SPlus \o Capture(WPlus \o Lit("Serializer")) \o SStar \o Lit("("),
       Lit("class") \o SPlus \o Capture(WPlus \o Lit("Serializer")) \o SStar \o Lit(":") >>

\* os.path.splitext(name)[0]: the name without its last extension
Stem(name) ==
    LET dots == {k \in 2..Len(name) : name[k] = "."}
    IN  IF dots = {} THEN name
        ELSE SubSeq(name, 1, (CHOOSE k \in dots : \A m \in dots : m <= k) - 1)

\* the dotted path find_all_serializers derives for a class of a file
SerializerPathOf(rel_path, serializer_name) ==
    LET parts == SplitOn(rel_path, "/")
        app_name == parts[1]
        file_name == Stem(parts[Len(parts)])
    IN  IF Contains(rel_path, <<"rest", "/", "serializer", "s">>)
        THEN app_name \o <<".", "rest", ".", "serializer", "s", ".">> \o file_name
                 \o <<".">> \o serializer_name
        ELSE IF Contains(rel_path, <<"serializer", "s">>)
        THEN app_name \o <<".", "serializer", "s", ".">> \o file_name
                 \o <<".">> \o serializer_name
        ELSE app_name \o <<".">> \o file_name \o <<".">> \o serializer_name

\* the classes found in one file: pattern by pattern, match by match
SerializersIn(f) ==
    Concat([p \in 1..Len(SerializerPatterns) |->
        LET ms == FindIter(SerializerPatterns[p], f.content)
        IN  [k \in 1..Len(ms) |->
                LET serializer_name == GroupText(f.content, ms[k])
                IN  [name |-> serializer_name,
                     path |-> SerializerPathOf(f.path, serializer_name),
                     file |-> f.path]]])

RECURSIVE UniqueByNameLast(_, _, _)
\* a removal of duplicates in which a later class replaces the earlier one
UniqueByNameLast(found, unique_serializers, seen) ==
    IF found = <<>> THEN unique_serializers
    ELSE IF Head(found).name \notin seen
    THEN UniqueByNameLast(Tail(found), Append(unique_serializers, Head(found)),
                          seen \cup {Head(found).name})
    ELSE UniqueByNameLast(Tail(found),
             [k \in 1..Len(unique_serializers) |->
                 IF unique_serializers[k].name = Head(found).name
                 THEN Head(found) ELSE unique_serializers[k]],
             seen)

RECURSIVE UniqueByName(_, _, _)
UniqueByName(found, unique_serializers, seen) ==
    IF found = <<>> THEN unique_serializers
    ELSE IF Head(found).name \notin seen
    THEN UniqueByName(Tail(found), Append(unique_serializers, Head(found)),
                      seen \cup {Head(found).name})
    ELSE UniqueByName(Tail(found), unique_serializers, seen)

FindAllSerializers(dirs, tree_) ==
    LET rd == Readable(Walk(dirs, tree_))
    IN  UniqueByName(Concat([k \in 1..Len(rd) |-> SerializersIn(rd[k])]), <<>>, {})

(***************************************************************************)
(* find_unused_serializers: Command.handle                                 *)
(***************************************************************************)
\* options.app and options.limit: << >> and 0 stand for None
FilterByApp(found, target_app) ==
    IF target_app # <<>>
    THEN SelectSeq(found, LAMBDA c : StartsWith(c.path, target_app \o <<".">>))
    ELSE found

ApplyLimit(found, limit) ==
    IF limit > 0 THEN SubSeq(found, 1, IF limit < Len(found) THEN limit ELSE Len(found))
    ELSE found

\* a selection that cuts the list before it filters it
LimitThenFilter(found, target_app, limit) ==
    FilterByApp(ApplyLimit(found, limit), target_app)

\* the candidates to analyze: the app filter, then the limit
FilterThenLimit(found, target_app, limit) ==
    ApplyLimit(FilterByApp(found, target_app), limit)

\* finder.find_all_serializers(), the app filter and the limit
Enumerate ==
    /\ bpc = "start"
    /\ serializers' = FilterThenLimit(FindAllSerializers(app_dirs, tree),
                                      options.app, options.limit)
    /\ bpc' = "loop"
    /\ UNCHANGED <<envVars, cmdVars, options, i, all_results, unused_serializers,
                   stdout, errors, snapshot, saves>>

ResultLengths(res) == [k \in 1..Len(Categories) |-> Len(res[Categories[k]])]

RECURSIVE Sum(_)
Sum(ns) == IF ns = <<>> THEN 0 ELSE Head(ns) + Sum(Tail(ns))

\* a total that counts a line once, however many categories have it
TotalPlaces(res) ==
    Cardinality(UNION { { <<res[c][k].file, res[c][k].line>> : k \in 1..Len(res[c]) } :
                           c \in CategorySet \ {"direct_imports"} })
        + Len(res["direct_imports"])

TotalUsages(res) == Sum(ResultLengths(res))

\* a comparison that leaves out the threshold itself
IsUnusedBelow(total_usages, threshold) == total_usages < threshold

\* total_usages <= threshold
IsUnused(total_usages, threshold) == total_usages <= threshold

\* the candidates processed between two writes of the progress file
ProgressEvery == 10

\* what _save_intermediate_results writes
Progress(unused, results) ==
    [unused_serializers |-> unused, analyzed_so_far |-> Len(results)]

\* the body of the loop for candidate i + 1 that runs to its end
AnalyzeOk ==
    /\ bpc = "loop"
    /\ i < Len(serializers)
    /\ LET serializer == serializers[i + 1]
       IN  /\ ~ParseFails(serializer.path)
           /\ \E res \in {AnalyzeResults(ParseSerializerPath(serializer.path),
                                            set_order, tree)} :
              \E total_usages \in {TotalUsages(res)} :
                LET serializer_result ==
                        [name |-> serializer.name, path |-> serializer.path,
                         file |-> serializer.file, total_usages |-> total_usages,
                         details |-> res]
                    unused == IF IsUnused(total_usages, options.threshold)
                              THEN Append(unused_serializers, serializer_result)
                              ELSE unused_serializers
                IN  /\ all_results' = Append(all_results, serializer_result)
                    /\ unused_serializers' = unused
                    /\ IF options.output /\ (i + 1) % ProgressEvery = 0
                       THEN \E written \in BOOLEAN :
                                /\ snapshot' = IF written
                                               THEN <<Progress(unused, all_results')>>
                                               ELSE snapshot
                                /\ saves' = Append(saves, [at |-> i + 1,
                                                           written |-> written])
                       ELSE UNCHANGED <<snapshot, saves>>
    \* sys.stdout is replaced by the null device during analyze() and put back
    /\ stdout' = stdout
    /\ i' = i + 1
    /\ UNCHANGED <<envVars, cmdVars, options, bpc, serializers, errors>>

\* a loop that the exception of one candidate ends
AnalyzeRaisesAndStops ==
    /\ bpc = "loop"
    /\ i < Len(serializers)
    /\ \E at \in {"init", "analyze"} :
          /\ ParseFails(serializers[i + 1].path) => at = "init"
          /\ stdout' = IF at = "analyze" THEN "devnull" ELSE stdout
    /\ errors' = Append(errors, serializers[i + 1].name)
    /\ i' = Len(serializers)
    /\ UNCHANGED <<envVars, cmdVars, options, bpc, serializers, all_results,
                   unused_serializers, snapshot, saves>>

\* the body of the loop when the constructor or analyze() raises: at "init"
\* before sys.stdout is replaced, at "analyze" after it
AnalyzeRaises ==
    /\ bpc = "loop"
    /\ i < Len(serializers)
    /\ \E at \in {"init", "analyze"} :
          /\ ParseFails(serializers[i + 1].path) => at = "init"
          /\ stdout' = IF at = "analyze" THEN "devnull" ELSE stdout
    /\ errors' = Append(errors, serializers[i + 1].name)
    /\ i' = i + 1
    /\ UNCHANGED <<envVars, cmdVars, options, bpc, serializers, all_results,
                   unused_serializers, snapshot, saves>>

RECURSIVE InsertBeforeEqual(_, _)
\* an insertion that puts x in front of the elements with its total_usages
InsertBeforeEqual(sorted, x) ==
    IF sorted = <<>> THEN <<x>>
    ELSE IF Head(sorted).total_usages < x.total_usages
    THEN <<Head(sorted)>> \o InsertBeforeEqual(Tail(sorted), x)
    ELSE <<x>> \o sorted

RECURSIVE InsertByUsage(_, _)
\* x goes behind every element whose total_usages is not larger
InsertByUsage(sorted, x) ==
    IF sorted = <<>> THEN <<x>>
    ELSE IF Head(sorted).total_usages <= x.total_usages
    THEN <<Head(sorted)>> \o InsertByUsage(Tail(sorted), x)
    ELSE <<x>> \o sorted

RECURSIVE SortByUsage(_)
\* list.sort(key=lambda x: x['total_usages']): a stable sort
SortByUsage(list) ==
    IF list = <<>> THEN <<>>
    ELSE InsertByUsage(SortByUsage(SubSeq(list, 1, Len(list) - 1)), list[Len(list)])

\* progress_bar.close(), the sort and the output of the report
Finish ==
    /\ bpc = "loop"
    /\ i = Len(serializers)
    /\ unused_serializers' = SortByUsage(unused_serializers)
    /\ bpc' = "done"
    /\ UNCHANGED <<envVars, cmdVars, options, serializers, i, all_results,
                   stdout, errors, snapshot, saves>>

NextBatch == Enumerate \/ AnalyzeOk \/ AnalyzeRaises \/ Finish

(***************************************************************************)
(* Fixtures: the trees, paths and options the specifications start from    *)
(***************************************************************************)
File(path, readable, lines) ==
    [path |-> path, readable |-> readable, content |-> JoinWith(lines, NL)]

SeqsUpTo(S, n) == UNION {[1..k -> S] : k \in 0..n}

ViewsPy == <<"app", "/", "views", ".", "py">>
ModelsPy == <<"other", "/", "models", ".", "py">>
AppDirs == << <<"app">>, <<"other">> >>

\* lines of source text around the class Foo of app/views.py
ScanLines ==
    { <<"class", " ", "Foo", "(", "Base", ")", ":">>,
      <<"class", " ", "Foo", "(", "Foo", "Base", ")", ":">>,
      <<"class", " ", "Bar", "(", "Foo", ")", ":">>,
      <<" ", "x", " ", "=", " ", "Foo", "(", "many", "=", "True", ")">>,
      <<" ", "serializer", "_", "class", " ", "=", " ", "Foo">>,
      <<" ", "serializer", "_", "class", " ", "=", " ", "Bar">>,
      <<" ", "serializer", "_", "class", " ", "=", " ", "Foo", ".", "Inner">>,
      <<"return", " ", "Foo", "(", "many", "=", "True", ")">>,
      <<"Foo", "(", "sub", "class", ")">>,
      <<"Foo", "(", "data", ")">>,
      <<"from", " ", "app", ".", "views", " ", "import", " ", "Foo">>,
      <<"from", " ", "app", ".", "views", " ", "import", " ", "(", "Foo", ")">>,
      <<"Foo", ".", "Meta">>,
      <<"def", " ", "get", "_", "serializer", "_", "class", "(", "self", ")", ":">>,
      <<" ", "return", " ", "Foo">>,
      <<"#", " ", "class", " ", "Bar", "Serializer", " ", "has", " ", "class", " ",
        "Foo", ":", " ", "Bar", "Serializer", ".", "Foo">> }

\* the most lines a tree holds
MaxLines == 2

\* two files with at most MaxLines lines between them; each may be unreadable
ScanTrees ==
    { <<File(ViewsPy, r1, l1), File(ModelsPy, r2, l2)>> :
        <<l1, l2, r1, r2>> \in
            { q \in SeqsUpTo(ScanLines, MaxLines) \X SeqsUpTo(ScanLines, MaxLines)
                      \X BOOLEAN \X BOOLEAN :
                Len(q[1]) + Len(q[2]) <= MaxLines } }

ScanPaths ==
    { <<"app", ".", "views", ".", "Foo">>, <<"views", ".", "Foo">> }

BatchIdle ==
    /\ options = [threshold |-> 0, limit |-> 0, app |-> <<>>, output |-> FALSE]
    /\ bpc = "idle"
    /\ serializers = <<>>
    /\ i = 0
    /\ all_results = <<>>
    /\ unused_serializers = <<>>
    /\ stdout = "original"
    /\ errors = <<>>
    /\ snapshot = <<>>
    /\ saves = <<>>

CmdStart ==
    /\ pc = "start"
    /\ analyzer = <<>>
    /\ reads = 0
    /\ raw_results = EmptyResults
    /\ outcome = "none"
    /\ passes = [pending |-> {}, permuted |-> FALSE]

CmdIdle ==
    /\ serializer_path = <<>>
    /\ pc = "idle"
    /\ analyzer = <<>>
    /\ reads = 0
    /\ raw_results = EmptyResults
    /\ outcome = "none"
    /\ passes = [pending |-> {}, permuted |-> FALSE]

\* analyze_serializer_usage <path> over a tree
InitScan ==
    /\ tree \in ScanTrees
    /\ app_dirs = AppDirs
    /\ set_order \in Orders(app_dirs)
    /\ serializer_path \in ScanPaths
    /\ CmdStart
    /\ BatchIdle

SpecScan == InitScan /\ [][NextCmd]_vars

\* lines that several passes record
OrderLines ==
    { <<"return", " ", "Foo", "(", "data", ")">>,
      <<"Foo", ".", "Meta">>,
      <<" ", "x", " ", "=", " ", "Foo", "(", "many", "=", "True", ")">>,
      <<"class", " ", "Bar", "(", "Foo", ")", ":">>,
      <<"from", " ", "app", ".", "views", " ", "import", " ", "Foo">>,
      <<" ", "serializer", "_", "class", " ", "=", " ", "Foo", ".", "Inner">> }

OrderTrees ==
    { <<File(ViewsPy, TRUE, l1)>> : l1 \in SeqsUpTo(OrderLines, MaxLines) }

\* analyze() of app.views.Foo after find_serializer_in_file, with its eight
\* passes still to run
InitOrder ==
    /\ tree \in OrderTrees
    /\ app_dirs = AppDirs
    /\ set_order \in Orders(app_dirs)
    /\ serializer_path = <<"app", ".", "views", ".", "Foo">>
    /\ pc = "passes"
    /\ analyzer = <<[NewAnalyzer(serializer_path) EXCEPT
                        !.project_dirs = set_order,
                        !.serializer_class =
                            FindSerializerInFile(ParseSerializerPath(serializer_path),
                                                 set_order, tree)]>>
    /\ reads = LocatorReads(ParseSerializerPath(serializer_path), set_order, tree)
    /\ raw_results = EmptyResults
    /\ outcome = "none"
    /\ passes = [pending |-> CategorySet, permuted |-> FALSE]
    /\ BatchIdle

SpecOrder == InitOrder /\ [][NextOrder]_vars

\* the atoms of the paths given to the command and the longest path
PathAtoms == {"a", "b", "."}
MaxPathLen == 7

ParseTree ==
    << File(<<"a", "/", "b", ".", "py">>, TRUE,
            << <<"class", " ", "b", "(", "a", ")", ":">>, <<"x", " ", "=", " ", "b", "(", ")">> >>) >>

\* analyze_serializer_usage <any path>
InitParse ==
    /\ tree = ParseTree
    /\ app_dirs = << <<"a">> >>
    /\ set_order = app_dirs
    /\ serializer_path \in SeqsUpTo(PathAtoms, MaxPathLen)
    /\ CmdStart
    /\ BatchIdle

SpecParse == InitParse /\ [][NextCmd]_vars

\* results as the passes may leave them: the records of one category
DedupContents == { <<"a">>, <<"b">> }
DedupLineNumbers == {1, 2}
LineRecords ==
    [file : {ViewsPy, ModelsPy}, line : DedupLineNumbers, content : DedupContents]
ImportRecords == [file : {ViewsPy, ModelsPy}, import_stmt : DedupContents]

\* the most records a category holds before deduplication
MaxItems == 3

UndedupedResults ==
    { [EmptyResults EXCEPT ![c] = items] :
        <<c, items>> \in
            ((CategorySet \ {"direct_imports"}) \X SeqsUpTo(LineRecords, MaxItems))
            \cup ({"direct_imports"} \X SeqsUpTo(ImportRecords, MaxItems)) }

\* an analyzer whose passes are over, before _deduplicate_results
InitDedup ==
    /\ tree = <<>>
    /\ app_dirs = AppDirs
    /\ set_order = app_dirs
    /\ serializer_path = <<"app", ".", "views", ".", "Foo">>
    /\ pc = "dedup"
    /\ \E res \in UndedupedResults :
          analyzer = <<[NewAnalyzer(serializer_path) EXCEPT !.results = res,
                                                            !.project_dirs = set_order]>>
    /\ reads = 0
    /\ raw_results = EmptyResults
    /\ outcome = "none"
    /\ passes = [pending |-> {}, permuted |-> FALSE]
    /\ BatchIdle

NextDedup == Deduplicate \/ Report

SpecDedup == InitDedup /\ [][NextDedup]_vars

\* the project of the batch command: two classes in app/serializers/user.py,
\* one in other/views.py followed by lines that use the classes
UserPy == <<"app", "/", "serializer", "s", "/", "user", ".", "py">>
OtherViewsPy == <<"other", "/", "views", ".", "py">>
ClassLine(name) == <<"class", " ">> \o name \o <<"(", "Base", ")", ":">>
UsedNames == { <<"Foo", "Serializer">>, <<"User", "Serializer">> }
UsageLines ==
    { name \o <<"(", "data", ")">> : name \in UsedNames }
    \cup { <<" ", "x", " ", "=", " ">> \o name \o <<"(", "many", "=", "True", ")">> :
             name \in UsedNames }
    \cup { <<" ", "serializer", "_", "class", " ", "=", " ">> \o name \o <<".", "Inner">> :
             name \in UsedNames }

\* the most lines that use a class
MaxUsageLines == 2

BatchTrees ==
    { << File(UserPy, TRUE, << ClassLine(<<"Foo", "Serializer">>),
                                ClassLine(<<"Bar", "Serializer">>) >>),
         File(OtherViewsPy, TRUE, << ClassLine(<<"User", "Serializer">>) >> \o uses) >> :
        uses \in SeqsUpTo(UsageLines, MaxUsageLines) }

Thresholds == {0, 1, 2}
Limits == {0, 2}
TargetApps == { <<>>, <<"app">>, <<"other">> }

\* find_unused_serializers with its options
InitBatch ==
    /\ tree \in BatchTrees
    /\ app_dirs = AppDirs
    /\ set_order = app_dirs
    /\ options \in [threshold : Thresholds, limit : Limits, app : TargetApps,
                    output : {FALSE}]
    /\ bpc = "start"
    /\ serializers = <<>>
    /\ i = 0
    /\ all_results = <<>>
    /\ unused_serializers = <<>>
    /\ stdout = "original"
    /\ errors = <<>>
    /\ snapshot = <<>>
    /\ saves = <<>>
    /\ CmdIdle

SpecBatch == InitBatch /\ [][NextBatch]_vars

\* the classes of a project with more than ProgressEvery serializers
ManyNames ==
    << <<"Foo", "Serializer">>, <<"Bar", "Serializer">>, <<"User", "Serializer">>,
       <<"Inner", "Serializer">>, <<"Meta", "Serializer">>,
       <<"Foo", "Bar", "Serializer">>, <<"Bar", "Foo", "Serializer">>,
       <<"User", "Foo", "Serializer">>, <<"User", "Bar", "Serializer">>,
       <<"Foo", "User", "Serializer">>, <<"Bar", "User", "Serializer">> >>

ClassLines(from, to) == [k \in 1..(to - from + 1) |-> ClassLine(ManyNames[from + k - 1])]

ProgressTrees ==
    { << File(ViewsPy, TRUE, ClassLines(1, 3)),
         File(UserPy, TRUE, ClassLines(4, 6)),
         File(ModelsPy, TRUE, ClassLines(7, 9)),
         File(OtherViewsPy, TRUE,
              ClassLines(10, 11) \o << <<"Meta", "Serializer", "(", "data", ")">> >>) >> }

\* find_unused_serializers --output <file> over such a project
InitProgress ==
    /\ tree \in ProgressTrees
    /\ app_dirs = AppDirs
    /\ set_order = app_dirs
    /\ options \in [threshold : {0}, limit : {0, ProgressEvery}, app : {<<>>},
                    output : {TRUE}]
    /\ bpc = "start"
    /\ serializers = <<>>
    /\ i = 0
    /\ all_results = <<>>
    /\ unused_serializers = <<>>
    /\ stdout = "original"
    /\ errors = <<>>
    /\ snapshot = <<>>
    /\ saves = <<>>
    /\ CmdIdle

SpecProgress == InitProgress /\ [][NextBatch]_vars

\* files of a project, in an order os.walk can deliver them
EnumPaths ==
    << <<"app", "/", "views", ".", "py">>,
       <<"app", "/", "user", "_", "serializer", "s", ".", "py">>,
       <<"app", "/", "user", ".", "a", ".", "py">>,
       <<"app", "/", "serializer", "s", "/", "user", ".", "py">>,
       <<"app", "/", "rest", "/", "serializer", "s", "/", "user", ".", "py">>,
       <<"other", "/", "rest", "_", "serializer", "s", ".", "py">>,
       <<"other", "/", "rest", "/", "views", ".", "py">>,
       <<".", ".", "/", "lib", "/", "views", ".", "py">> >>

\* an application installed outside the working directory
OutsideDir == <<".", ".", "/", "lib">>

EnumClassLines ==
    { ClassLine(<<"Foo", "Serializer">>), ClassLine(<<"Bar", "Serializer">>),
      <<"class", " ", "Foo", "Serializer", ":">> }

\* the most class definitions in a file
MaxClasses == 2

\* find_unused_serializers over a project of two files
InitEnumerate ==
    /\ \E a \in 1..Len(EnumPaths) : \E b \in (a + 1)..Len(EnumPaths) :
       \E la \in SeqsUpTo(EnumClassLines, MaxClasses) \ {<<>>} : \E lb \in EnumClassLines :
          tree = << File(EnumPaths[a], TRUE, la), File(EnumPaths[b], TRUE, <<lb>>) >>
    /\ app_dirs \in {o \o <<OutsideDir>> : o \in Orders(AppDirs)}
    /\ set_order = app_dirs
    /\ options = [threshold |-> 0, limit |-> 0, app |-> <<>>, output |-> FALSE]
    /\ bpc = "start"
    /\ serializers = <<>>
    /\ i = 0
    /\ all_results = <<>>
    /\ unused_serializers = <<>>
    /\ stdout = "original"
    /\ errors = <<>>
    /\ snapshot = <<>>
    /\ saves = <<>>
    /\ CmdIdle

SpecEnumerate == InitEnumerate /\ [][NextBatch]_vars

\* lines that use the class Foo nested in BarSerializer, or Foo itself
ParentLines ==
    { <<" ", "serializer", "_", "class", " ", "=", " ", "Bar", "Serializer", ".", "Foo">>,
      <<"def", " ", "get", "_", "serializer", "_", "class", "(", "self", ")", ":">>,
      <<" ", "return", " ", "Bar", "Serializer", ".", "Foo">>,
      <<" ", "serializer", "_", "class", " ", "=", " ", "Foo">>,
      <<"Bar", "Serializer", ".", "Foo", "(", "data", ")">> }

\* the most lines that use the class
MaxParentLines == 3

\* app/views.py defines Foo, inside BarSerializer or on its own;
\* other/models.py uses it
ParentTrees ==
    { << File(ViewsPy, TRUE, defs), File(ModelsPy, TRUE, uses) >> :
        defs \in { << ClassLine(<<"Bar", "Serializer">>),
                      <<" ">> \o ClassLine(<<"Foo">>) >>,
                   << ClassLine(<<"Foo">>) >> },
        uses \in SeqsUpTo(ParentLines, MaxParentLines) }

\* analyze_serializer_usage <path> over such a tree
InitParent ==
    /\ tree \in ParentTrees
    /\ app_dirs = AppDirs
    /\ set_order \in Orders(app_dirs)
    /\ serializer_path \in ScanPaths
    /\ CmdStart
    /\ BatchIdle

SpecParent == InitParent /\ [][NextCmd]_vars

(***************************************************************************)
(* Properties of SpecParse                                                 *)
(***************************************************************************)
\* the segments of a dotted path, said without str.split: the only sequence
\* of dot-free pieces that joined by dots gives the path back
IsSegmentsOf(parts, path) ==
    /\ Len(parts) >= 1
    /\ \A k \in 1..Len(parts) : ~Contains(parts[k], <<".">>)
    /\ JoinWith(parts, ".") = path

Segments(path) == SplitOn(path, ".")

\* C1: a path of three or more segments always parses, to the first segment
\* as group, the second-to-last as module and the last as class name; three
\* segments g.m.c give (g, m, c), and with more than three the segments
\* between the first and the second-to-last have no effect on the outcome.
C1_ParseTakesFirstSecondLastAndLast ==
    LET parts == Segments(serializer_path)
        last == Len(parts)
    IN  /\ IsSegmentsOf(parts, serializer_path)
        /\ (last >= MinSegments /\ pc # "start") =>
              /\ analyzer # <<>>
              /\ analyzer[1].app_name = parts[1]
              /\ analyzer[1].file_name = parts[last - 1]
              /\ analyzer[1].serializer_name = parts[last]
              /\ last = MinSegments =>
                    Target(analyzer[1]) =
                        [app_name |-> parts[1], file_name |-> parts[2],
                         serializer_name |-> parts[3]]
              /\ Target(analyzer[1]) =
                    ParseSerializerPath(JoinWith(<<parts[1], parts[last - 1],
                                                   parts[last]>>, "."))

\* a path of four segments whose second and third segment differ has been parsed
C1_Witness ==
    LET parts == Segments(serializer_path)
    IN  /\ pc = "done"
        /\ analyzer # <<>>
        /\ Len(parts) = 4
        /\ parts[2] # parts[3]
        /\ parts[3] # <<>>
        /\ analyzer[1].file_name = parts[3]

\* C2: a path of fewer than three segments never gets an analyzer: no result
\* structure comes to exist, no file is read, the command never reaches a
\* report, and when it has ended it has ended in a CommandError.
C2_ShortPathFailsBeforeAnyWork ==
    Len(Segments(serializer_path)) < MinSegments =>
        /\ analyzer = <<>>
        /\ reads = 0
        /\ pc \in {"start", "except", "done"}
        /\ outcome # "report"
        /\ pc = "done" => outcome = "CommandError"

\* the command has ended in a CommandError for a path like a.b
C2_Witness ==
    /\ pc = "done"
    /\ outcome = "CommandError"
    /\ Len(Segments(serializer_path)) = 2
    /\ analyzer = <<>>

(***************************************************************************)
(* Properties of SpecBatch                                                 *)
(***************************************************************************)
Named(list, name) == {k \in 1..Len(list) : list[k].name = name}

\* the occurrences of a result, counted one by one over the eight categories
Occurrences(details) ==
    UNION { {<<c, k>> : k \in 1..Len(details[c])} : c \in CategorySet }

\* the place of a class in the sequence the enumerator delivered
Discovered(name) == CHOOSE k \in 1..Len(serializers) : serializers[k].name = name

C4_UnusedSortedStably ==
    bpc = "done" =>
        \A p, q \in 1..Len(unused_serializers) :
            p < q =>
                /\ unused_serializers[p].total_usages <= unused_serializers[q].total_usages
                /\ unused_serializers[p].total_usages = unused_serializers[q].total_usages
                      => Discovered(unused_serializers[p].name)
                             < Discovered(unused_serializers[q].name)

\* a finished run whose unused list has a tie and, in front of the tie, a
\* class discovered after the first of the two
C4_Witness ==
    /\ bpc = "done"
    /\ Len(unused_serializers) = 3
    /\ unused_serializers[1].total_usages < unused_serializers[2].total_usages
    /\ unused_serializers[2].total_usages = unused_serializers[3].total_usages
    /\ Discovered(unused_serializers[1].name) > Discovered(unused_serializers[2].name)

\* the candidates the loop has gone through
Failed == {errors[k] : k \in 1..Len(errors)}

\* C5: a candidate whose analysis raised is in neither list; the loop goes on
\* to the candidates after it, so that at the end every candidate either
\* failed or has its result; and the step in which a candidate fails leaves
\* the results collected before it as they were.
C5_FailureSkipsOnlyTheCandidate ==
    /\ [](/\ \A name \in Failed :
                /\ Named(all_results, name) = {}
                /\ Named(unused_serializers, name) = {}
          /\ bpc = "loop" =>
                /\ [k \in 1..Len(all_results) |-> all_results[k].name]
                      = SelectSeq([k \in 1..i |-> serializers[k].name],
                                  LAMBDA name : name \notin Failed)
          /\ bpc = "done" =>
                \A k \in 1..Len(serializers) :
                    \/ serializers[k].name \in Failed
                    \/ Named(all_results, serializers[k].name) # {})
    /\ [][Len(errors') > Len(errors) =>
              /\ all_results' = all_results
              /\ unused_serializers' = unused_serializers
              /\ i' = i + 1
              /\ bpc' = "loop"]_vars

\* a finished run in which the second of three candidates failed and the
\* first and the third have their results
C5_Witness ==
    /\ bpc = "done"
    /\ Len(serializers) = 3
    /\ errors = <<serializers[2].name>>
    /\ Len(all_results) = 2
    /\ all_results[1].name = serializers[1].name
    /\ all_results[2].name = serializers[3].name

(***************************************************************************)
(* Properties of SpecScan                                                  *)
(***************************************************************************)
\* the tree without the files that cannot be opened or decoded
WithoutUnreadable(files) == SelectSeq(files, LAMBDA f : f.readable)

\* C6: over a tree with files that cannot be read, the command ends in a
\* report, never in an error, and the class locator, the parent-class
\* fallback and the result of the passes are those of the same tree with the
\* unreadable files removed.
C6_UnreadableFileIsAsIfAbsent ==
    analyzer # <<>> =>
        LET a == analyzer[1]
            kept == WithoutUnreadable(tree)
        IN  /\ outcome # "CommandError"
            /\ pc \notin {"except", "roots", "locate"} =>
                  a.serializer_class =
                      FindSerializerInFile(Target(a), a.project_dirs, kept)
            /\ FindPotentialParentSerializers(Target(a), Walk(a.project_dirs, tree))
                  = FindPotentialParentSerializers(Target(a), Walk(a.project_dirs, kept))
            /\ pc = "done" =>
                  /\ outcome = "report"
                  /\ a.results = AnalyzeResults(Target(a), a.project_dirs, kept)

\* the analysis has ended over a tree with an unreadable file that holds an
\* instantiation of Foo, and a readable file that gave occurrences
C6_Witness ==
    /\ pc = "done"
    /\ outcome = "report"
    /\ \E k \in 1..Len(tree) :
          /\ ~tree[k].readable
          /\ tree[k].content = <<"Foo", "(", "data", ")">>
    /\ analyzer[1].results["direct_instantiations"] = <<>>
    /\ analyzer[1].results # EmptyResults

\* C7: when the locator finds no definition of the target, the analysis
\* still opens the files for each of the eight passes and for the fallback,
\* deduplicates, and ends in a report whose result has the eight categories
\* with all that the passes find in the tree.
C7_NotFoundStillScansEverything ==
    (analyzer # <<>> /\ pc = "done" /\ ~analyzer[1].serializer_class) =>
        LET a == analyzer[1]
            n == Target(a)
            files == Walk(a.project_dirs, tree)
        IN  /\ outcome = "report"
            /\ DOMAIN a.results = CategorySet
            /\ reads = LocatorReads(n, a.project_dirs, tree)
                          + Len(Categories) * Len(files) + ParentReads(n, files)
            /\ a.results = DeduplicateResults(ScanResults(n, a.project_dirs, tree))
            /\ a.results = DeduplicateResults(raw_results)

\* the analysis has ended without a definition of the target, with occurrences
C7_Witness ==
    /\ pc = "done"
    /\ outcome = "report"
    /\ ~analyzer[1].serializer_class
    /\ analyzer[1].results["direct_instantiations"] # <<>>
    /\ reads > 0

\* the line is "class <name>(...": the definition of the class called name
DefinesClass(content, name) ==
    /\ content # <<>>
    /\ Head(content) = "class"
    /\ Len(content) >= 2
    /\ content[2] \in SpaceAtoms
    /\ StartsWith(LStrip(Tail(content)), name \o <<"(">>)

\* the bases of a class line: the pieces between the parentheses
BasesOf(content) ==
    LET open == {k \in 1..Len(content) : content[k] = "("}
        close == {k \in 1..Len(content) : content[k] = ")"}
    IN  IF open = {} \/ close = {} THEN {}
        ELSE LET first == CHOOSE k \in open : \A m \in open : k <= m
                 last == CHOOSE k \in close : \A m \in close : m <= k
                 bases == SplitOn(SubSeq(content, first + 1, last - 1), ",")
             IN  {Strip(bases[k]) : k \in 1..Len(bases)}

\* C10: the inheritance category of the result for Foo holds no line that
\* defines Foo itself, only lines that define another class with Foo among
\* its bases.
C10_NoDefinitionLineInInheritance ==
    analyzer # <<>> =>
        LET name == analyzer[1].serializer_name
            found == analyzer[1].results["serializer_inheritance"]
        IN  \A k \in 1..Len(found) :
                /\ ~DefinesClass(found[k].content, name)
                /\ name \in BasesOf(found[k].content)

(***************************************************************************)
(* Properties of SpecDedup                                                 *)
(***************************************************************************)
\* the (file, line) of an occurrence; an import has no line
FileAndLine(item) ==
    IF "line" \in DOMAIN item THEN <<item.file, item.line>> ELSE <<item.file>>

\* the places of a sequence that are the first with their (file, line)
FirstPlaces(items) ==
    {k \in 1..Len(items) :
        \A m \in 1..(k - 1) : FileAndLine(items[m]) # FileAndLine(items[k])}

\* C8: after deduplication a category has no two occurrences with the same
\* (file, line); its occurrences are those that were the first of their
\* (file, line) before, whatever the content of the later ones, in the order
\* they had before.
C8_DedupKeepsFirstPerFileLine ==
    (analyzer # <<>> /\ pc \in {"report", "done"}) =>
        \A c \in CategorySet :
            LET old == raw_results[c]
                new == analyzer[1].results[c]
                firsts == FirstPlaces(old)
            IN  /\ \A p, q \in 1..Len(new) :
                       p # q => FileAndLine(new[p]) # FileAndLine(new[q])
                /\ Len(new) = Cardinality(firsts)
                /\ \A k \in firsts : new[Cardinality({m \in firsts : m <= k})] = old[k]

\* three occurrences, the third on the line of the first with another
\* content, have become the first two
C8_Witness ==
    /\ pc = "report"
    /\ \E c \in CategorySet \ {"direct_imports"} :
          LET old == raw_results[c]
          IN  /\ Len(old) = 3
              /\ FileAndLine(old[1]) = FileAndLine(old[3])
              /\ old[1].content # old[3].content
              /\ FileAndLine(old[1]) # FileAndLine(old[2])
              /\ analyzer[1].results[c] = <<old[1], old[2]>>

\* C9: deduplicating results that are already deduplicated changes no
\* category: same occurrences, same order.
C9_DedupIsIdempotent ==
    (analyzer # <<>> /\ pc \in {"report", "done"}) =>
        /\ DeduplicateResults(analyzer[1].results) = analyzer[1].results
        /\ \A c \in CategorySet :
              DeduplicateCategory(analyzer[1].results[c]) = analyzer[1].results[c]

\* three occurrences of one line have become one
C9_Witness ==
    /\ pc = "done"
    /\ \E c \in CategorySet :
          /\ Len(raw_results[c]) = 3
          /\ Len(analyzer[1].results[c]) = 1

(***************************************************************************)
(* Properties of the categories, over SpecScan                             *)
(***************************************************************************)
\* the lines of the files the passes read: <<path, number, text>>
ScannedLines ==
    LET rd == Readable(Walk(set_order, tree))
    IN  UNION { { <<rd[f].path, k, Lines(rd[f].content)[k]>> :
                    k \in 1..Len(Lines(rd[f].content)) } : f \in 1..Len(rd) }

\* the records of a category at a (file, line)
At(items, file, line) ==
    {k \in 1..Len(items) : items[k].file = file /\ items[k].line = line}

\* text is p followed by blanks followed by q ... : the pieces in a row with
\* any number of blanks between them, somewhere in the line
RECURSIVE PiecesAt(_, _, _)
PiecesAt(line, j, pieces) ==
    IF pieces = <<>> THEN TRUE
    ELSE \E b \in 0..Len(line) :
            /\ \A k \in j..(j + b - 1) : k <= Len(line) /\ line[k] \in Blank
            /\ StartsAt(line, j + b, Head(pieces))
            /\ PiecesAt(line, j + b + Len(Head(pieces)), Tail(pieces))

HasPieces(line, pieces) == \E j \in 1..Len(line) : PiecesAt(line, j, pieces)

\* the line holds serializer_class = <name>
IsSerializerClassLine(line, name) ==
    HasPieces(line, << <<"serializer", "_", "class">>, <<"=">>, name >>)

\* C11: a line  serializer_class = <ClassName>  of a scanned file has exactly
\* one record in serializer_class_declarations of the result for the class,
\* also when it matches several patterns of the category.
C11_OneDeclarationPerLine ==
    (analyzer # <<>> /\ pc \in {"report", "done"}) =>
        \A l \in ScannedLines :
            IsSerializerClassLine(l[3], analyzer[1].serializer_name) =>
                Cardinality(At(analyzer[1].results["serializer_class_declarations"],
                               l[1], l[2])) = 1

\* the analysis has ended over a line  serializer_class = Foo.Inner, which two
\* patterns matched: two records before deduplication, one after
C11_Witness ==
    /\ pc = "done"
    /\ analyzer # <<>>
    /\ \E l \in ScannedLines :
          /\ IsSerializerClassLine(l[3], analyzer[1].serializer_name)
          /\ Cardinality(At(raw_results["serializer_class_declarations"], l[1], l[2])) = 2
          /\ Cardinality(At(analyzer[1].results["serializer_class_declarations"],
                            l[1], l[2])) = 1

\* the line is  <field> = <name>(many=True)
IsManyTrueField(line, name) ==
    LET t == Strip(line)
    IN  \E w \in 1..Len(t) : \E a, b \in 0..Len(t) :
            /\ w + a + b + 1 < Len(t)
            /\ \A k \in 1..w : t[k] \in WordAtoms
            /\ \A k \in (w + 1)..(w + a) : t[k] \in Blank
            /\ t[w + a + 1] = "="
            /\ \A k \in (w + a + 2)..(w + a + 1 + b) : t[k] \in Blank
            /\ SubSeqFrom(t, w + a + b + 2) = name \o <<"(", "many", "=", "True", ")">>

\* C12: a line  <field> = <ClassName>(many=True)  of a scanned file has
\* exactly one record in field_usages, exactly one in many_true_usages and
\* none in direct_instantiations of the result for the class.
C12_ManyTrueFieldCountedTwiceNotThrice ==
    (analyzer # <<>> /\ pc \in {"report", "done"}) =>
        \A l \in ScannedLines :
            IsManyTrueField(l[3], analyzer[1].serializer_name) =>
                /\ Cardinality(At(analyzer[1].results["field_usages"], l[1], l[2])) = 1
                /\ Cardinality(At(analyzer[1].results["many_true_usages"], l[1], l[2])) = 1
                /\ At(analyzer[1].results["direct_instantiations"], l[1], l[2]) = {}

\* the analysis has ended over a line  x = Foo(many=True)
C12_Witness ==
    /\ pc = "done"
    /\ analyzer # <<>>
    /\ \E l \in ScannedLines :
          /\ IsManyTrueField(l[3], analyzer[1].serializer_name)
          /\ At(analyzer[1].results["field_usages"], l[1], l[2]) # {}
          /\ At(analyzer[1].results["many_true_usages"], l[1], l[2]) # {}

(***************************************************************************)
(* The total of a candidate, over SpecBatch                                *)
(***************************************************************************)
\* no two occurrences of the sequence have the same (file, line)
Deduplicated(items) == FirstPlaces(items) = 1..Len(items)

\* C13: for every candidate whose analysis completed, total_usages is the
\* number of occurrences of its result counted over exactly the eight
\* categories, each category being as deduplication left it (no two
\* occurrences with the same file and line).
C13_TotalIsSumOfEightDeduplicatedCategories ==
    \A r \in 1..Len(all_results) :
        /\ DOMAIN all_results[r].details = CategorySet
        /\ Cardinality(CategorySet) = 8
        /\ \A c \in CategorySet : Deduplicated(all_results[r].details[c])
        /\ all_results[r].total_usages = Cardinality(Occurrences(all_results[r].details))

\* a completed candidate with occurrences in several categories, one of them
\* on a line that two declaration patterns match
C13_Witness ==
    \E r \in 1..Len(all_results) :
        /\ all_results[r].details["many_true_usages"] # <<>>
        /\ all_results[r].details["field_usages"] # <<>>
        /\ Len(all_results[r].details["serializer_class_declarations"]) = 1
        /\ Len(ScanResults(ParseSerializerPath(all_results[r].path), set_order, tree)
                  ["serializer_class_declarations"]) = 2
        /\ all_results[r].total_usages = 3

(***************************************************************************)
(* The progress file, over SpecProgress                                    *)
(***************************************************************************)
\* C14: with an output file, every time the number of candidates processed
\* reaches a multiple of 10 the progress file is written (the call is made,
\* and what it writes is the candidates analyzed and the unused ones found so
\* far), whether or not the candidate that made the count was analyzed with
\* success.
C14_SnapshotAtEveryTenthProcessed ==
    (options.output /\ bpc = "loop" /\ i > 0 /\ i % ProgressEvery = 0) =>
        \E k \in 1..Len(saves) :
            /\ saves[k].at = i
            /\ saves[k].written =>
                  snapshot = <<Progress(unused_serializers, all_results)>>

\* the same, for the counts that a successful analysis made
C14_SnapshotWhenTenthSucceeded ==
    (options.output /\ bpc = "loop" /\ i > 0 /\ i % ProgressEvery = 0
        /\ all_results # <<>>
        /\ all_results[Len(all_results)].name = serializers[i].name) =>
        \E k \in 1..Len(saves) :
            /\ saves[k].at = i
            /\ saves[k].written =>
                  snapshot = <<Progress(unused_serializers, all_results)>>

(***************************************************************************)
(* The candidates, over SpecEnumerate                                      *)
(***************************************************************************)
\* the components of a relative path
Components(rel_path) == SplitOn(rel_path, "/")

\* the path has the components segs in a row
HasSegments(rel_path, segs) ==
    LET parts == Components(rel_path)
    IN  \E k \in 1..Len(parts) :
            /\ k + Len(segs) - 1 <= Len(parts)
            /\ \A m \in 1..Len(segs) : parts[k + m - 1] = segs[m]

\* the name of a file without its extension .py
FileStem(rel_path) ==
    LET parts == Components(rel_path)
        name == parts[Len(parts)]
    IN  SubSeq(name, 1, Len(name) - 2)

\* the dotted path of a class by the segments of the path of its file
PathBySegments(rel_path, name) ==
    LET group == Components(rel_path)[1]
    IN  IF HasSegments(rel_path, << <<"rest">>, <<"serializer", "s">> >>)
        THEN JoinWith(<<group, <<"rest">>, <<"serializer", "s">>, FileStem(rel_path), name>>, ".")
        ELSE IF HasSegments(rel_path, << <<"serializer", "s">> >>)
        THEN JoinWith(<<group, <<"serializer", "s">>, FileStem(rel_path), name>>, ".")
        ELSE JoinWith(<<group, FileStem(rel_path), name>>, ".")

\* C15: the dotted path of every class the enumerator found is
\* group.rest.serializers.fileStem.ClassName when rest/serializers are
\* segments of the relative path of its file, group.serializers.fileStem.ClassName
\* when serializers is a segment of it, and group.fileStem.ClassName otherwise.
C15_PathDerivedFromSegments ==
    bpc # "start" =>
        \A k \in 1..Len(serializers) :
            serializers[k].path = PathBySegments(serializers[k].file, serializers[k].name)

\* the same for the files whose path has the text serializers in a segment
\* of that name only
C15_PathDerivedWhenTextIsASegment ==
    bpc # "start" =>
        \A k \in 1..Len(serializers) :
            (Contains(serializers[k].file, <<"serializer", "s">>)
                <=> HasSegments(serializers[k].file, << <<"serializer", "s">> >>))
            /\ (Contains(serializers[k].file, <<"rest", "/", "serializer", "s">>)
                <=> HasSegments(serializers[k].file, << <<"rest">>, <<"serializer", "s">> >>))
            => serializers[k].path = PathBySegments(serializers[k].file, serializers[k].name)

\* every class definition of the readable files, in the order of discovery:
\* file by file in walk order, pattern by pattern, match by match
AllFound == 
    LET rd == Readable(Walk(app_dirs, tree))
    IN  Concat([k \in 1..Len(rd) |-> SerializersIn(rd[k])])

\* the places of AllFound that are the first with their name
FirstOfName(found) ==
    {k \in 1..Len(found) : \A m \in 1..(k - 1) : found[m].name # found[k].name}

\* C16: the list find_all_serializers returns has each class name once, and
\* the entry of a name is its first discovery in enumeration order, with the
\* path and the file of that discovery: the list is the discoveries that are
\* the first of their name, in order.
C16_CandidatesUniqueFirstWins ==
    bpc # "start" =>
        /\ \A a, b \in 1..Len(serializers) :
              serializers[a].name = serializers[b].name => a = b
        /\ \E found \in {AllFound} :
              /\ Len(serializers) = Cardinality(FirstOfName(found))
              /\ \A k \in 1..Len(serializers) :
                    \E p \in FirstOfName(found) :
                        /\ serializers[k] = found[p]
                        /\ Cardinality({q \in FirstOfName(found) : q <= p}) = k

\* two classes of the same name in two files: one candidate, that of the
\* first file
C16_Witness ==
    /\ bpc = "done"
    /\ \E found \in {AllFound} : \E a, b \in 1..Len(found) :
          /\ a < b
          /\ found[a].name = found[b].name
          /\ found[a].file # found[b].file
          /\ a \in FirstOfName(found)
          /\ \E k \in 1..Len(serializers) : serializers[k] = found[a]

(***************************************************************************)
(* The imports, over SpecScan                                              *)
(***************************************************************************)
\* the records of a file in a sequence of records
OfFile(items, file) == {k \in 1..Len(items) : items[k].file = file}

\* C17: after analyze() the category direct_imports has at most one record
\* per file, also when several import patterns match the text of the file.
C17_OneImportRecordPerFile ==
    (analyzer # <<>> /\ pc \in {"report", "done"}) =>
        \A k \in 1..Len(analyzer[1].results["direct_imports"]) :
            Cardinality(OfFile(analyzer[1].results["direct_imports"],
                               analyzer[1].results["direct_imports"][k].file)) = 1

\* a file for which the scan made two import records, one of which is left
C17_Witness ==
    /\ pc = "done"
    /\ analyzer # <<>>
    /\ \E k \in 1..Len(raw_results["direct_imports"]) :
          /\ Cardinality(OfFile(raw_results["direct_imports"],
                                raw_results["direct_imports"][k].file)) >= 2
          /\ Cardinality(OfFile(analyzer[1].results["direct_imports"],
                                raw_results["direct_imports"][k].file)) = 1

(***************************************************************************)
(* The instantiations, over SpecScan                                       *)
(***************************************************************************)
\* the line has  name(  or  name.<attr>(
HasCallShape(line, name) ==
    \/ Contains(line, name \o <<"(">>)
    \/ \E j \in 1..Len(line) : \E w \in 1..Len(line) :
          /\ j + Len(name) + w + 1 <= Len(line)
          /\ SubSeq(line, j, j + Len(name) - 1) = name
          /\ line[j + Len(name)] = "."
          /\ \A k \in (j + Len(name) + 1)..(j + Len(name) + w) : line[k] \in WordAtoms
          /\ line[j + Len(name) + w + 1] = "("

\* the keyword class: the word on its own, not a part of an identifier
HasClassKeyword(line) ==
    \E k \in 1..Len(line) :
        /\ line[k] = "class"
        /\ k > 1 => line[k - 1] \notin WordAtoms
        /\ k < Len(line) => line[k + 1] \notin WordAtoms

\* how many parentheses are open in front of place k
Depth(line, k) ==
    Cardinality({m \in 1..(k - 1) : line[m] = "("})
        - Cardinality({m \in 1..(k - 1) : line[m] = ")"})

\* an assignment: an = outside any parentheses that is no part of a comparison
HasAssignment(line) ==
    \E k \in 1..Len(line) :
        /\ line[k] = "="
        /\ Depth(line, k) = 0
        /\ k > 1 => line[k - 1] \notin {"=", "!", "<", ">"}
        /\ k < Len(line) => line[k + 1] # "="

\* C18: a scanned line is recorded in direct_instantiations exactly when it
\* has a call  ClassName(  or  ClassName.<attr>(  and has neither the keyword
\* class nor an assignment; a call whose only = is that of a keyword
\* argument, or whose only class is a part of another identifier, is recorded.
C18_RecordedIffCallWithoutClassOrAssignment ==
    (analyzer # <<>> /\ pc \in {"report", "done"}) =>
        \A l \in ScannedLines :
            At(analyzer[1].results["direct_instantiations"], l[1], l[2]) # {}
                <=> /\ HasCallShape(l[3], analyzer[1].serializer_name)
                    /\ ~HasClassKeyword(l[3])
                    /\ ~HasAssignment(l[3])

\* what holds instead: the lines recorded are the calls without the text
\* class and without any =
C18_RecordedIffCallWithoutClassOrEqualText ==
    (analyzer # <<>> /\ pc \in {"report", "done"}) =>
        \A l \in ScannedLines :
            At(analyzer[1].results["direct_instantiations"], l[1], l[2]) # {}
                <=> /\ HasCallShape(l[3], analyzer[1].serializer_name)
                    /\ ~Contains(l[3], <<"class">>)
                    /\ ~Contains(l[3], <<"=">>)

(***************************************************************************)
(* The order of the passes, over SpecOrder                                 *)
(***************************************************************************)
RECURSIVE RunInOrder(_, _, _)
\* the analyzer after the passes ps, one after the other
RunInOrder(ps, a, files) ==
    IF ps = <<>> THEN a
    ELSE RunInOrder(Tail(ps), ApplyPass(Head(ps), a, files), files)

\* what analyze() returns with the eight passes in the order of the source,
\* then the fallback and the deduplication
InSourceOrder(a, files) ==
    LET fresh == [a EXCEPT !.results = EmptyResults, !.seen_results = {}]
        after == RunInOrder(Categories, fresh, files).results
    IN  DeduplicateResults(
            [after EXCEPT !["serializer_class_declarations"] =
                @ \o ScanForParentSerializerUsages(Target(a), files)])

\* C19: the eight passes are independent of their order: run in any
\* permutation, then the fallback pass and the deduplication, they give the
\* result of the order of the source, the same sequence of occurrences in
\* each of the eight categories.
C19_PassesOrderIndependent ==
    (pc \in {"report", "done"} /\ analyzer # <<>> /\ passes.permuted) =>
        \E a \in {analyzer[1]} : a.results = InSourceOrder(a, WalkOf(a))

\* the order of analyze() itself gives what the model of analyze computes
C19_SourceOrderIsAnalyze ==
    (pc \in {"report", "done"} /\ analyzer # <<>>) =>
        analyzer[1].results = AnalyzeResults(Target(analyzer[1]), set_order, tree)

\* a run that took the passes out of the order of the source and found
\* occurrences in three categories or more, the instantiations among them
C19_Witness ==
    /\ pc = "done"
    /\ analyzer # <<>>
    /\ passes.permuted
    /\ analyzer[1].results["direct_instantiations"] # <<>>
    /\ Cardinality({c \in CategorySet : analyzer[1].results[c] # <<>>}) >= 3

(***************************************************************************)
(* The fallback through a parent, over SpecParent                          *)
(***************************************************************************)
\* the content of a record starts with the marker of the fallback
HasMarker(item) ==
    /\ "content" \in DOMAIN item
    /\ item.content # <<>>
    /\ item.content[1] = ParentMarker

\* the scanned lines that have  Parent.ClassName  for a parent detected
ParentUseLines ==
    LET a == analyzer[1]
        parents == FindPotentialParentSerializers(Target(a), WalkOf(a))
    IN  {l \in ScannedLines :
            \E k \in 1..Len(parents) :
                Contains(l[3], parents[k] \o <<".">> \o a.serializer_name)}

\* the fallback has appended nothing: no record of what deduplication found
\* carries the marker, and the declarations are those of the declaration pass
FallbackAddedNothing ==
    /\ \A c \in CategorySet : \A k \in 1..Len(raw_results[c]) : ~HasMarker(raw_results[c][k])
    /\ raw_results["serializer_class_declarations"] =
           ScanForSerializerClassDeclarations(Target(analyzer[1]), WalkOf(analyzer[1]))

\* C20 as stated: when a parent is detected, every scanned line with
\* Parent.ClassName has an occurrence at its (file, line) in
\* serializer_class_declarations whose content carries the marker "Used
\* through parent"; when none is detected the fallback adds nothing.
C20_ParentUseCarriesMarker ==
    (analyzer # <<>> /\ pc \in {"report", "done"}) =>
        /\ \A l \in ParentUseLines :
              \E k \in At(analyzer[1].results["serializer_class_declarations"], l[1], l[2]) :
                  HasMarker(analyzer[1].results["serializer_class_declarations"][k])
        /\ FindPotentialParentSerializers(Target(analyzer[1]), WalkOf(analyzer[1])) = <<>>
              => FallbackAddedNothing

\* C20: when a parent is detected, every scanned line with Parent.ClassName
\* has exactly one occurrence at its (file, line) in
\* serializer_class_declarations; that occurrence carries the marker "Used
\* through parent" exactly when the declaration pass recorded nothing at that
\* (file, line), since deduplication keeps the earlier record; when no
\* parent is detected the fallback adds nothing.
C20_ParentUseRecordedMarkedUnlessDeclared ==
    (analyzer # <<>> /\ pc \in {"report", "done"}) =>
        /\ \A l \in ParentUseLines :
              \E own \in {ScanForSerializerClassDeclarations(Target(analyzer[1]),
                                                             WalkOf(analyzer[1]))} :
              \E here \in {At(analyzer[1].results["serializer_class_declarations"],
                              l[1], l[2])} :
                  /\ Cardinality(here) = 1
                  /\ \A k \in here :
                        HasMarker(analyzer[1].results["serializer_class_declarations"][k])
                            <=> At(own, l[1], l[2]) = {}
        /\ FindPotentialParentSerializers(Target(analyzer[1]), WalkOf(analyzer[1])) = <<>>
              => FallbackAddedNothing

\* the analysis has ended with a parent detected, one line used through the
\* parent that carries the marker and one whose earlier record was kept
C20_Witness ==
    /\ pc = "done"
    /\ analyzer # <<>>
    /\ \E l1, l2 \in ParentUseLines :
          /\ \E k \in At(analyzer[1].results["serializer_class_declarations"], l1[1], l1[2]) :
                HasMarker(analyzer[1].results["serializer_class_declarations"][k])
          /\ \E k \in At(analyzer[1].results["serializer_class_declarations"], l2[1], l2[2]) :
                ~HasMarker(analyzer[1].results["serializer_class_declarations"][k])

\* the analysis has ended without any parent over lines that name one
C20_NoParentWitness ==
    /\ pc = "done"
    /\ analyzer # <<>>
    /\ FindPotentialParentSerializers(Target(analyzer[1]), WalkOf(analyzer[1])) = <<>>
    /\ \E l \in ScannedLines : Contains(l[3], <<"Bar", "Serializer", ".", "Foo">>)

(***************************************************************************)
(* The candidates analyzed, over SpecBatch                                 *)
(***************************************************************************)
\* the candidates of found whose path has the group target_app
OfGroup(found, target_app) ==
    SelectSeq(found, LAMBDA c : Segments(c.path)[1] = target_app)

\* the first n elements of a sequence, all of them when it has fewer
FirstN(found, n) == [k \in 1..(IF n < Len(found) THEN n ELSE Len(found)) |-> found[k]]

\* the candidates the options select among those enumerated
ExpectedCandidates ==
    LET Limited(found) == IF options.limit > 0 THEN FirstN(found, options.limit)
                          ELSE found
        Filtered(found) == IF options.app # <<>> THEN OfGroup(found, options.app)
                           ELSE found
    IN  Limited(Filtered(FindAllSerializers(app_dirs, tree)))

\* the names of the candidates the loop has processed
Processed ==
    {all_results[k].name : k \in 1..Len(all_results)} \cup Failed

KeysOf(items) == { <<items[k].file, items[k].line>> : k \in 1..Len(items) }

\* C22: after analyze() no (file, line) is in both direct_instantiations and
\* many_true_usages: a line recorded as a many=True usage is not recorded as
\* a direct instantiation, so the two categories never count a line twice.
C22_ManyTrueNeverAlsoInstantiation ==
    (analyzer # <<>> /\ pc \in {"report", "done"}) =>
        KeysOf(analyzer[1].results["direct_instantiations"])
            \cap KeysOf(analyzer[1].results["many_true_usages"]) = {}

\* the analysis has ended over a call with many=True that is no assignment,
\* recorded in many_true_usages, and over a call recorded as an instantiation
C22_Witness ==
    /\ pc = "done"
    /\ analyzer # <<>>
    /\ analyzer[1].results["direct_instantiations"] # <<>>
    /\ \E l \in ScannedLines :
          /\ HasCallShape(l[3], analyzer[1].serializer_name)
          /\ ~HasAssignment(l[3])
          /\ ~HasClassKeyword(l[3])
          /\ At(analyzer[1].results["many_true_usages"], l[1], l[2]) # {}
          /\ At(analyzer[1].results["direct_instantiations"], l[1], l[2]) = {}

(***************************************************************************)
(* The standard output of the batch run, over SpecBatch                    *)
(***************************************************************************)
\* C23: after each candidate of the loop, whether its analysis succeeded or
\* raised, sys.stdout is the original stream again: no failure leaves the
\* output on the null device for the candidates after it or the final report.
C23_StdoutRestoredAfterEachCandidate ==
    bpc \in {"loop", "done"} => stdout = "original"

\* what holds instead: the output is on the null device only after a
\* candidate has failed
C23_StdoutOriginalUnlessFailed ==
    (bpc \in {"loop", "done"} /\ errors = <<>>) => stdout = "original"

(***************************************************************************)
(* The paths of the candidates parsed back, over SpecEnumerate             *)
(***************************************************************************)
\* the path of candidate c parses to its name, the stem of its file and the
\* first component of the relative path of its file
ParsesBack(c) ==
    /\ ~ParseFails(c.path)
    /\ \E parsed \in {ParseSerializerPath(c.path)} :
          /\ parsed.serializer_name = c.name
          /\ parsed.file_name = FileStem(c.file)
          /\ parsed.app_name = Components(c.file)[1]

\* C24: every path the enumerator derives is accepted by the parser (three
\* segments or more) and parses back to the name of the candidate, the stem
\* of its file and the first component of the relative path of its file: no
\* candidate fails with an invalid path and the scan is for the name found.
C24_DerivedPathParsesBack ==
    bpc # "start" =>
        \A k \in 1..Len(serializers) : ParsesBack(serializers[k])

\* what holds instead: the path is always accepted and gives the name back;
\* the stem and the first component come back when they have no dot
C24_ParsesBackWithoutDots ==
    bpc # "start" =>
        \A k \in 1..Len(serializers) :
            /\ ~ParseFails(serializers[k].path)
            /\ ParseSerializerPath(serializers[k].path).serializer_name
                   = serializers[k].name
            /\ (/\ ~Contains(FileStem(serializers[k].file), <<".">>)
                /\ ~Contains(Components(serializers[k].file)[1], <<".">>))
                   => ParsesBack(serializers[k])

=============================================================================
